---------------------------- MODULE Spec2Model ----------------------------
(***************************************************************************)
(* Model of compose/repository/module.go (corteza-server, vendored in       *)
(* crust-server): the compose_module_field table and the field              *)
(* reconciliation done by module.UpdateFields.                              *)
(*                                                                          *)
(* One invocation of UpdateFields is a process that moves through           *)
(*   idle -> FindFields -> Walk (one step per DELETE)                       *)
(*        -> Loop (one step per desired field) -> done -> idle              *)
(* Every step holds at most one storage operation, so that storage          *)
(* failures and the interleaving of two callers can be placed between any   *)
(* two storage operations.                                                  *)
(*                                                                          *)
(* Timestamps are naturals; NULL stands for a nil *time.Time and for the    *)
(* zero time.Time.  IDs are naturals; 0 is the "no ID" value of the code.   *)
(* Sonyflake is a counter: it never issues an ID twice and never issues    *)
(* FabricatedID, the ID a caller makes up.                                  *)
(***************************************************************************)
EXTENDS Naturals, Sequences, FiniteSets

VARIABLES
    fields,      \* compose_module_field: primary key (id) -> row
    nextID,      \* factory.Sonyflake: the next ID it issues
    now,         \* the rounded current time
    procs,       \* the callers (request handlers) that exist
    moduleIDs,   \* the modules fields are kept for
    calls,       \* lists submitted to UpdateFields so far
    pc,          \* per caller: position inside UpdateFields
    moduleID,    \* per caller: argument moduleID
    ff,          \* per caller: argument ff; its elements are pointers, so
                 \* the caller's list is changed in place by the loop
    hasRecords,  \* per caller: argument hasRecords
    existing,    \* per caller: the snapshot FindFields returned
    idx,         \* per caller: index into existing (Walk) or ff (Loop)
    err,         \* per caller: the error UpdateFields returned
    arg,         \* history, per caller: ff as it was submitted
    pre,         \* history, per caller: the table when the call started
    again,       \* history, per caller: the call resubmits the list the
                 \* caller's previous, successful call left behind
    turns,       \* history: the callers in the order in which they wrote to
                 \* the table, consecutive writes of one caller counted once
    early,       \* history, per caller: it loaded its snapshot before any
                 \* caller wrote
    modules,     \* compose_module: primary key (id) -> row
    lastCall,    \* history: the latest call to the module store, with its
                 \* argument, its result and the table it started from
    found,       \* history: the latest call to Find, with its filter, its
                 \* result and the storage calls it issued
    at,          \* AttachRemoteFiles: where the call is
    rr,          \* AttachRemoteFiles: argument rr, the URLs
    url,         \* AttachRemoteFiles: index into rr of the loop
    result,      \* AttachRemoteFiles: what the call returned
    wg,          \* AttachRemoteFiles: the counter of the WaitGroup
    l,           \* AttachRemoteFiles: the holder of the mutex, 0 for none
    get,         \* AttachRemoteFiles: per URL, where its goroutine is
    message      \* the mail message: the attachments, in the order added

(* The variables UpdateFields neither reads nor writes *)
mailVars == <<at, rr, url, result, wg, l, get, message>>

rest == <<modules, lastCall, found, mailVars>>

vars == <<fields, nextID, now, procs, moduleIDs, calls, pc, moduleID, ff,
          hasRecords, existing, idx, err, arg, pre, again, turns, early,
          rest>>

-----------------------------------------------------------------------------
(* Bounds *)

MaxLen == 2      \* longest desired list a caller submits
MaxCalls == 2    \* lists submitted in one behaviour (each may be resubmitted once)

(* nil / zero time / zero ID *)
NULL == 0

(* An ID a caller made up; Sonyflake never issues it. *)
FabricatedID == 2 * (MaxCalls + 1) * MaxLen + 1

(* A timestamp a caller made up, later than any time the clock shows. *)
BogusTime == 2 * MaxCalls + 1

-----------------------------------------------------------------------------
(* Helpers *)

Min(S) == CHOOSE x \in S : \A y \in S : x <= y

Range(s) == { s[k] : k \in DOMAIN s }

SeqsUpTo(S, n) == UNION { [1..k -> S] : k \in 0..n }

(* types.ModuleFieldSet.FindByID: the first element with that ID, or nil.   *)
(* The result is <<>> for nil and <<e>> for a hit.                          *)
FindByID(set, ID) ==
    LET ks == { k \in DOMAIN set : set[k].ID = ID }
    IN  IF ks = {} THEN <<>> ELSE <<set[Min(ks)]>>

(* FindFields without "AND deleted_at IS NULL" *)
ActiveRowsDeletedToo(tbl, ids) ==
    { tbl[k] : k \in { j \in DOMAIN tbl : tbl[j].ModuleID \in ids } }

(* FindFields without "rel_module IN (?)" *)
ActiveRowsAnyModule(tbl, ids) ==
    { tbl[k] : k \in { j \in DOMAIN tbl : tbl[j].DeletedAt = NULL } }

(* The rows a "WHERE rel_module IN (?) AND deleted_at IS NULL" selects. *)
ActiveRows(tbl, ids) ==
    { tbl[k] : k \in { j \in DOMAIN tbl :
                         tbl[j].ModuleID \in ids /\ tbl[j].DeletedAt = NULL } }

(* ORDER BY rel_module, place *)
Ordered(s) ==
    \A a, b \in DOMAIN s :
        a < b => \/ s[a].ModuleID < s[b].ModuleID
                 \/ /\ s[a].ModuleID = s[b].ModuleID
                    /\ s[a].Place <= s[b].Place

(* module.FindFields: every sequence the SELECT may return.  Rows that tie  *)
(* on (rel_module, place) come back in an order SQL does not fix.           *)
FindFields(tbl, ids) ==
    IF ids = {} THEN { <<>> }
    ELSE LET rows == ActiveRows(tbl, ids)
         IN  { s \in [1..Cardinality(rows) -> rows] :
                   Range(s) = rows /\ Ordered(s) }

(* deleteFieldByID with a WHERE clause that matches no row *)
deleteNoField(tbl, m, fieldID) == tbl

(* deleteFieldByID as a soft delete: the row stays, marked deleted *)
softDeleteFieldByID(tbl, m, fieldID) ==
    [ k \in DOMAIN tbl |->
        IF tbl[k].ModuleID = m /\ tbl[k].ID = fieldID
        THEN [tbl[k] EXCEPT !.DeletedAt = BogusTime]
        ELSE tbl[k] ]

(* module.deleteFieldByID: DELETE ... WHERE rel_module = ? AND id = ? *)
deleteFieldByID(tbl, m, fieldID) ==
    [ k \in { j \in DOMAIN tbl :
                ~ (tbl[j].ModuleID = m /\ tbl[j].ID = fieldID) } |-> tbl[k] ]

(* db.Replace: insert, or overwrite the whole row with that primary key *)
Replace(tbl, f) ==
    [ k \in DOMAIN tbl \cup {f.ID} |-> IF k = f.ID THEN f ELSE tbl[k] ]


-----------------------------------------------------------------------------
(* The body of the loop over ff in UpdateFields, on one element f.          *)
(* e is existing.FindByID(f.ID), t the rounded current time, id the ID      *)
(* Sonyflake issues when asked.                                             *)

(* Carry, stamping UpdatedAt whether or not there are records *)
CarryStampsAlways(f, e, h, t) ==
    IF e # <<>>
    THEN IF h
         THEN [f EXCEPT !.CreatedAt = e[1].CreatedAt,
                        !.Name = e[1].Name,
                        !.Kind = e[1].Kind,
                        !.UpdatedAt = t]
         ELSE [f EXCEPT !.CreatedAt = e[1].CreatedAt,
                        !.UpdatedAt = t]
    ELSE [f EXCEPT !.ID = NULL]

(* Carry, leaving an ID it does not know as submitted *)
CarryKeepsUnknownID(f, e, h, t) ==
    IF e # <<>>
    THEN IF h
         THEN [f EXCEPT !.CreatedAt = e[1].CreatedAt,
                        !.Name = e[1].Name,
                        !.Kind = e[1].Kind]
         ELSE [f EXCEPT !.CreatedAt = e[1].CreatedAt,
                        !.UpdatedAt = t]
    ELSE f

(* Carry, not copying CreatedAt from the existing field *)
CarryKeepsSubmittedCreatedAt(f, e, h, t) ==
    IF e # <<>>
    THEN IF h
         THEN [f EXCEPT !.Name = e[1].Name,
                        !.Kind = e[1].Kind]
         ELSE [f EXCEPT !.UpdatedAt = t]
    ELSE [f EXCEPT !.ID = NULL]

(* Carry, resetting the Name but not the Kind when there are records *)
CarryResetsNameOnly(f, e, h, t) ==
    IF e # <<>>
    THEN IF h
         THEN [f EXCEPT !.CreatedAt = e[1].CreatedAt,
                        !.Name = e[1].Name]
         ELSE [f EXCEPT !.CreatedAt = e[1].CreatedAt,
                        !.UpdatedAt = t]
    ELSE [f EXCEPT !.ID = NULL]

(* Carry, forgetting to look the field up: every field is taken for new *)
CarryAlwaysNew(f, e, h, t) == [f EXCEPT !.ID = NULL]

(* if e := existing.FindByID(f.ID); e != nil { ... } else { f.ID = 0 } *)
Carry(f, e, h, t) ==
    IF e # <<>>
    THEN IF h
         THEN [f EXCEPT !.CreatedAt = e[1].CreatedAt,
                        !.Name = e[1].Name,
                        !.Kind = e[1].Kind]
         ELSE [f EXCEPT !.CreatedAt = e[1].CreatedAt,
                        !.UpdatedAt = t]
    ELSE [f EXCEPT !.ID = NULL]

(* if f.ID == 0 { f.ID = NextID(); SetCurrentTimeRounded(&f.CreatedAt) } *)
Generate(f, id, t) ==
    IF f.ID = NULL
    THEN [f EXCEPT !.ID = id, !.CreatedAt = t]
    ELSE f

(* Stamp, counting places from 1 *)
StampFromOne(f, m, place) ==
    [f EXCEPT !.ModuleID = m, !.Place = place + 1, !.DeletedAt = NULL]

(* f.ModuleID = moduleID; f.Place = idx; f.DeletedAt = nil *)
Stamp(f, m, place) ==
    [f EXCEPT !.ModuleID = m, !.Place = place, !.DeletedAt = NULL]

(* The element as it is handed to db.Replace.  i is the position in ff      *)
(* counted from 1; the code's idx counts from 0.                            *)
LoopBody(f, ex, m, i, h, id, t) ==
    Stamp(Generate(Carry(f, FindByID(ex, f.ID), h, t), id, t), m, i - 1)

(* The Walk callback deletes e exactly when ff.FindByID(e.ID) == nil *)
Absent(list, e) == FindByID(list, e.ID) = <<>>

-----------------------------------------------------------------------------
(* What callers submit *)

(* The other value of a content column *)
Other(v) ==
    CASE v = "Amount"     -> "AmountPaid"
      [] v = "AmountPaid" -> "Amount"
      [] v = "number"     -> "text"
      [] v = "text"       -> "number"
      [] v = "Total"      -> "Paid"
      [] v = "Paid"       -> "Total"

(* A field the caller adds: no ID, no timestamps *)
Added ==
    [ ID |-> NULL, ModuleID |-> NULL, Place |-> 0,
      Kind |-> "number", Name |-> "Amount", Label |-> "Total",
      CreatedAt |-> NULL, UpdatedAt |-> NULL, DeletedAt |-> NULL ]

(* A field the caller sends under an ID it made up, with timestamps it made *)
(* up for created_at and deleted_at                                         *)
Forged ==
    [ Added EXCEPT !.ID = FabricatedID,
                   !.CreatedAt = BogusTime, !.DeletedAt = BogusTime ]

(* A row the caller read and sends back as it is *)
Echoed(r) == r

(* A row the caller read and sends back renamed, retyped, relabelled and    *)
(* with made-up created_at and deleted_at                                   *)
Edited(r) ==
    [ r EXCEPT !.Name = Other(r.Name), !.Kind = Other(r.Kind),
               !.Label = Other(r.Label),
               !.CreatedAt = BogusTime, !.DeletedAt = BogusTime ]

(* The fields a caller can submit when the table is tbl: rows of any module *)
(* may be echoed or edited.                                                 *)
Submittable(tbl) ==
    {Added, Forged}
        \cup { Echoed(tbl[k]) : k \in DOMAIN tbl }
        \cup { Edited(tbl[k]) : k \in DOMAIN tbl }

DesiredLists(tbl) == SeqsUpTo(Submittable(tbl), MaxLen)

-----------------------------------------------------------------------------
(* Initial state: no field rows, nobody inside UpdateFields *)

(* AttachRemoteFiles not called, a message without attachments *)
NoMail ==
    /\ at = "idle"
    /\ rr = << >>
    /\ url = 0
    /\ result = "none"
    /\ wg = 0
    /\ l = 0
    /\ get = << >>
    /\ message = << >>

(* No module rows, the module store not called yet *)
NoCall == [op |-> "none"]

NoStore ==
    /\ modules = << >>
    /\ lastCall = NoCall
    /\ found = NoCall
    /\ NoMail

InitCommon ==
    /\ fields = << >>
    /\ nextID = 1
    /\ now = 0
    /\ calls = 0
    /\ pc = [c \in procs |-> "idle"]
    /\ moduleID = [c \in procs |-> NULL]
    /\ ff = [c \in procs |-> << >>]
    /\ hasRecords = [c \in procs |-> FALSE]
    /\ existing = [c \in procs |-> << >>]
    /\ idx = [c \in procs |-> 0]
    /\ err = [c \in procs |-> "nil"]
    /\ arg = [c \in procs |-> << >>]
    /\ pre = [c \in procs |-> << >>]
    /\ again = [c \in procs |-> FALSE]
    /\ turns = << >>
    /\ early = [c \in procs |-> FALSE]

Init ==
    /\ procs = {1}
    /\ moduleIDs = {1}
    /\ InitCommon
    /\ NoStore

-----------------------------------------------------------------------------
(* UpdateFields *)

(* Entering UpdateFields(m, F, h).  Every call happens one rounding step    *)
(* of the clock after the call before it.                                   *)
Begin(c, m, F, h, a) ==
    /\ calls' = IF a THEN calls ELSE calls + 1
    /\ now' = now + 1
    /\ pc' = [pc EXCEPT ![c] = "FindFields"]
    /\ moduleID' = [moduleID EXCEPT ![c] = m]
    /\ ff' = [ff EXCEPT ![c] = F]
    /\ hasRecords' = [hasRecords EXCEPT ![c] = h]
    /\ existing' = [existing EXCEPT ![c] = << >>]
    /\ idx' = [idx EXCEPT ![c] = 0]
    /\ err' = [err EXCEPT ![c] = "nil"]
    /\ arg' = [arg EXCEPT ![c] = F]
    /\ pre' = [pre EXCEPT ![c] = fields]
    /\ again' = [again EXCEPT ![c] = a]
    /\ early' = [early EXCEPT ![c] = FALSE]
    /\ UNCHANGED rest
    /\ UNCHANGED <<fields, nextID, procs, moduleIDs, turns>>

(* A caller invokes UpdateFields with a list of its choosing *)
Call(c) ==
    /\ pc[c] = "idle"
    /\ calls < MaxCalls
    /\ \E m \in moduleIDs, h \in BOOLEAN :
         \E F \in DesiredLists(fields) :
            Begin(c, m, F, h, FALSE)

(* The lists of the two-caller specification: a caller adds fields and      *)
(* sends back rows it read, no row twice, either all of them as they are or *)
(* all of them edited.                                                      *)
NoRowTwice(F) ==
    \A j, k \in DOMAIN F : (j # k /\ F[j].ID = F[k].ID) => F[j].ID = NULL

PlainLists(tbl) ==
    { F \in SeqsUpTo({Added} \cup { Echoed(tbl[k]) : k \in DOMAIN tbl }, MaxLen)
             \cup SeqsUpTo({Added} \cup { Edited(tbl[k]) : k \in DOMAIN tbl }, MaxLen) :
        NoRowTwice(F) }

(* One of two callers invokes UpdateFields, before either has written.  The *)
(* callers are alike, so caller 1 is taken to be the one that enters first. *)
(* The module has no records, so that what a caller edits is written.       *)
CallPlain(c) ==
    /\ pc[c] = "idle"
    /\ turns = << >>
    /\ \A d \in procs : d < c => pc[d] # "idle"
    /\ \E m \in moduleIDs :
         \E F \in PlainLists(fields) :
            Begin(c, m, F, FALSE, FALSE)

(* A caller whose call succeeded invokes UpdateFields once more with the    *)
(* very same list (the same field objects, as the first call left them)     *)
CallAgain(c) ==
    /\ pc[c] = "done"
    /\ err[c] = "nil"
    /\ ~ again[c]
    /\ \E h \in BOOLEAN :
         Begin(c, moduleID[c], ff[c], h, TRUE)

(* existing.Walk(...) visits the snapshot in order and touches storage only  *)
(* for a field that ff lacks.  ToDelete is the position of the first such    *)
(* field at or after position j, or 0 when Walk has no DELETE left to issue. *)
ToDelete(s, j, F) ==
    LET ks == { k \in DOMAIN s : k >= j /\ Absent(F, s[k]) }
    IN  IF ks = {} THEN 0 ELSE Min(ks)

(* Where the code is at its next storage operation, Walk being at position j *)
Onward(s, j, F) ==
    IF ToDelete(s, j, F) # 0 THEN "Walk"
    ELSE IF Len(F) > 0 THEN "Loop" ELSE "done"

(* turns after caller c has written to the table.  Three turns say that the *)
(* writes of two callers were interleaved; more are not told apart.         *)
Wrote(c) ==
    IF turns # << >> /\ turns[Len(turns)] = c THEN turns
    ELSE IF Len(turns) >= 3 THEN <<turns[2], turns[3], c>>
    ELSE Append(turns, c)

(* Returning err from inside UpdateFields *)
Fail(c, e) ==
    /\ pc' = [pc EXCEPT ![c] = "done"]
    /\ err' = [err EXCEPT ![c] = e]

(* existing, err := r.FindFields(moduleID) *)
StepFindFields(c) ==
    /\ pc[c] = "FindFields"
    /\ \E s \in FindFields(fields, {moduleID[c]}) :
         /\ existing' = [existing EXCEPT ![c] = s]
         /\ pc' = [pc EXCEPT ![c] = Onward(s, 1, ff[c])]
         /\ idx' = [idx EXCEPT ![c] =
                      IF ToDelete(s, 1, ff[c]) # 0 THEN ToDelete(s, 1, ff[c]) ELSE 1]
    /\ early' = [early EXCEPT ![c] = (turns = << >>)]
    /\ UNCHANGED rest
    /\ UNCHANGED <<fields, nextID, now, procs, moduleIDs, calls, moduleID,
                   ff, hasRecords, err, arg, pre, again, turns>>

(* ... err != nil: return err *)
FailFindFields(c) ==
    /\ pc[c] = "FindFields"
    /\ Fail(c, "storage")
    /\ UNCHANGED rest
    /\ UNCHANGED <<fields, nextID, now, procs, moduleIDs, calls, moduleID,
                   ff, hasRecords, existing, idx, arg, pre, again, turns, early>>

(* Walk callback on a field that is not wanted any more: delete its row,    *)
(* then walk on to the next such field or into the loop                     *)
WalkDelete(c) ==
    LET j == idx[c] + 1
    IN  /\ pc[c] = "Walk"
        /\ fields' = deleteFieldByID(fields, moduleID[c], existing[c][idx[c]].ID)
        /\ pc' = [pc EXCEPT ![c] = Onward(existing[c], j, ff[c])]
        /\ idx' = [idx EXCEPT ![c] =
                     IF ToDelete(existing[c], j, ff[c]) # 0
                     THEN ToDelete(existing[c], j, ff[c]) ELSE 1]
        /\ turns' = Wrote(c)
        /\ UNCHANGED rest
        /\ UNCHANGED <<nextID, now, procs, moduleIDs, calls, moduleID,
                       ff, hasRecords, existing, err, arg, pre, again, early>>

(* ... the DELETE fails: Walk stops, UpdateFields returns that error *)
FailDelete(c) ==
    /\ pc[c] = "Walk"
    /\ Fail(c, "storage")
    /\ UNCHANGED rest
    /\ UNCHANGED <<fields, nextID, now, procs, moduleIDs, calls, moduleID,
                   ff, hasRecords, existing, idx, arg, pre, again, turns, early>>

(* Outcome, going on with the loop after a failed Replace *)
OutcomeGoesOn(ok, i, n) ==
    [ pc  |-> IF i < n THEN "Loop" ELSE "done",
      err |-> IF ok THEN "nil" ELSE "Error updating module fields" ]

(* How an iteration ends.  ok tells whether db.Replace succeeded, i is the  *)
(* position just handled, n the length of ff: a failure returns the wrapped *)
(* error at once, a success moves on or, after the last element, returns    *)
(* nil.                                                                     *)
Outcome(ok, i, n) ==
    IF ok
    THEN [pc |-> IF i < n THEN "Loop" ELSE "done", err |-> "nil"]
    ELSE [pc |-> "done", err |-> "Error updating module fields"]

(* One iteration of "for idx, f := range ff".  f is a pointer: the caller's *)
(* element is changed whether or not db.Replace succeeds.                   *)
Iterate(c, ok) ==
    LET i  == idx[c]
        f  == ff[c][i]
        g  == LoopBody(f, existing[c], moduleID[c], i, hasRecords[c], nextID, now)
        o  == Outcome(ok, i, Len(ff[c]))
    IN  /\ pc[c] = "Loop"
        /\ ff' = [ff EXCEPT ![c][i] = g]
        /\ nextID' = IF g.ID = nextID THEN nextID + 1 ELSE nextID
        /\ fields' = IF ok THEN Replace(fields, g) ELSE fields
        /\ pc' = [pc EXCEPT ![c] = o.pc]
        /\ err' = [err EXCEPT ![c] = o.err]
        /\ idx' = [idx EXCEPT ![c] = IF o.pc = "Loop" THEN i + 1 ELSE i]
        /\ turns' = IF ok THEN Wrote(c) ELSE turns
        /\ UNCHANGED rest
        /\ UNCHANGED <<now, procs, moduleIDs, calls, moduleID, hasRecords,
                       existing, arg, pre, again, early>>

StepLoop(c) == Iterate(c, TRUE)

FailReplace(c) == Iterate(c, FALSE)

(* UpdateFields has returned nil; the caller goes on and drops its list.    *)
(* A caller that got an error stops: it makes no further call.  So does a   *)
(* caller that has resubmitted its list.                                    *)
Return(c) ==
    /\ pc[c] = "done"
    /\ err[c] = "nil"
    /\ ~ again[c]
    /\ pc' = [pc EXCEPT ![c] = "idle"]
    /\ moduleID' = [moduleID EXCEPT ![c] = NULL]
    /\ ff' = [ff EXCEPT ![c] = << >>]
    /\ hasRecords' = [hasRecords EXCEPT ![c] = FALSE]
    /\ existing' = [existing EXCEPT ![c] = << >>]
    /\ idx' = [idx EXCEPT ![c] = 0]
    /\ err' = [err EXCEPT ![c] = "nil"]
    /\ arg' = [arg EXCEPT ![c] = << >>]
    /\ pre' = [pre EXCEPT ![c] = << >>]
    /\ again' = [again EXCEPT ![c] = FALSE]
    /\ early' = [early EXCEPT ![c] = FALSE]
    /\ turns' = << >>
    /\ UNCHANGED rest
    /\ UNCHANGED <<fields, nextID, now, procs, moduleIDs, calls>>

Next ==
    \/ \E c \in procs : Call(c)
    \/ \E c \in procs : CallAgain(c)
    \/ \E c \in procs : StepFindFields(c)
    \/ \E c \in procs : FailFindFields(c)
    \/ \E c \in procs : WalkDelete(c)
    \/ \E c \in procs : FailDelete(c)
    \/ \E c \in procs : StepLoop(c)
    \/ \E c \in procs : FailReplace(c)
    \/ \E c \in procs : Return(c)

Spec == Init /\ [][Next]_vars

-----------------------------------------------------------------------------
(* Two callers, one invocation of UpdateFields each, on one module, their   *)
(* steps interleaved in every way, storage not failing.  The module starts  *)
(* with the fields one successful UpdateFields of k added fields leaves on  *)
(* an empty table.                                                          *)

Seeded(k) == [ i \in 1..k |-> LoopBody(Added, << >>, 1, i, FALSE, i, 1) ]

InitConc ==
    /\ procs = {1, 2}
    /\ moduleIDs = {1}
    /\ \E k \in 0..MaxLen :
         /\ fields = Seeded(k)
         /\ nextID = k + 1
    /\ now = 1
    /\ calls = 0
    /\ pc = [c \in procs |-> "idle"]
    /\ moduleID = [c \in procs |-> NULL]
    /\ ff = [c \in procs |-> << >>]
    /\ hasRecords = [c \in procs |-> FALSE]
    /\ existing = [c \in procs |-> << >>]
    /\ idx = [c \in procs |-> 0]
    /\ err = [c \in procs |-> "nil"]
    /\ arg = [c \in procs |-> << >>]
    /\ pre = [c \in procs |-> << >>]
    /\ again = [c \in procs |-> FALSE]
    /\ turns = << >>
    /\ early = [c \in procs |-> FALSE]
    /\ NoStore

NextConc ==
    \/ \E c \in procs : CallPlain(c)
    \/ \E c \in procs : StepFindFields(c)
    \/ \E c \in procs : WalkDelete(c)
    \/ \E c \in procs : StepLoop(c)

SpecConc == InitConc /\ [][NextConc]_vars

-----------------------------------------------------------------------------
(* Vocabulary of the properties.  At pc[c] = "done" the call of caller c    *)
(* has returned err[c]; pre[c] is the table it found, arg[c] the list it    *)
(* was given, ff[c] that list as the call left it, fields the table now.    *)

Max(S) == CHOOSE x \in S : \A y \in S : y <= x

Done(c) == pc[c] = "done"

Succeeded(c) == pc[c] = "done" /\ err[c] = "nil"

(* The module's active fields when the call started, and now *)
Before(c) == ActiveRows(pre[c], {moduleID[c]})

After(c) == ActiveRows(fields, {moduleID[c]})

IDsOf(rows) == { r.ID : r \in rows }

SubmittedIDs(c) == { arg[c][k].ID : k \in DOMAIN arg[c] }

(* The last position of list F that carries id *)
LastIndex(F, id) == Max({ k \in DOMAIN F : F[k].ID = id })

(* The columns that are neither identity, position nor timestamps *)
Content(r) == <<r.Name, r.Kind, r.Label>>

-----------------------------------------------------------------------------
(* C1.  UpdateFields is idempotent.  While and after a caller resubmits the *)
(* list its previous, successful call left behind (nothing else having      *)
(* written in between), no field row is deleted and none is created, every  *)
(* row keeps its ID and its CreatedAt, and if hasRecords is true every row  *)
(* keeps its UpdatedAt as well.                                             *)
C1_Idempotent ==
    \A c \in procs :
        again[c] =>
            /\ DOMAIN fields = DOMAIN pre[c]
            /\ \A id \in DOMAIN fields :
                 /\ fields[id].ID = pre[c][id].ID
                 /\ fields[id].CreatedAt = pre[c][id].CreatedAt
                 /\ hasRecords[c] => fields[id].UpdatedAt = pre[c][id].UpdatedAt

(* A resubmitted list of full length went through with hasRecords false     *)
(* and advanced the UpdatedAt of a row it left otherwise in place.          *)
C1_Witness ==
    \E c \in procs :
        /\ Succeeded(c) /\ again[c] /\ ~ hasRecords[c]
        /\ Len(ff[c]) = MaxLen
        /\ \E id \in DOMAIN fields : fields[id].UpdatedAt # pre[c][id].UpdatedAt

-----------------------------------------------------------------------------
(* C2.  After a successful UpdateFields, a field that was active in the     *)
(* module when the call started and whose ID the desired list lacks has no  *)
(* row at all (not a row marked deleted); one whose ID the desired list     *)
(* carries still has its row, under the same ID, with the same CreatedAt,   *)
(* and with Place equal to its index in the list (the last such index       *)
(* should the list carry the ID more than once).                            *)
C2_OmittedGoneKeptInPlace ==
    \A c \in procs :
        Succeeded(c) =>
            \A e \in Before(c) :
                IF e.ID \notin SubmittedIDs(c)
                THEN e.ID \notin DOMAIN fields
                ELSE /\ e.ID \in DOMAIN fields
                     /\ fields[e.ID].ID = e.ID
                     /\ fields[e.ID].ModuleID = moduleID[c]
                     /\ fields[e.ID].DeletedAt = NULL
                     /\ fields[e.ID].CreatedAt = e.CreatedAt
                     /\ fields[e.ID].Place = LastIndex(arg[c], e.ID) - 1

(* Of two persisted fields the first was omitted and is gone, the second    *)
(* was kept and moved up to Place 0.                                        *)
C2_Witness ==
    \E c \in procs :
        /\ Succeeded(c)
        /\ \E e \in Before(c) : e.ID \notin SubmittedIDs(c) /\ e.Place = 0
        /\ \E e \in Before(c) :
             /\ e.ID \in SubmittedIDs(c)
             /\ e.Place = 1
             /\ fields[e.ID].Place = 0

-----------------------------------------------------------------------------
(* C3.  Record protection.  After a successful UpdateFields with hasRecords *)
(* true, every desired field whose ID is that of a field active in the      *)
(* module when the call started is persisted with the Name and the Kind it  *)
(* had before, whatever the caller submitted; and the only errors such a    *)
(* call returns are those of failed storage operations.                     *)
C3_RecordProtection ==
    \A c \in procs :
        (Done(c) /\ hasRecords[c]) =>
            /\ err[c] \in {"nil", "storage", "Error updating module fields"}
            /\ Succeeded(c) =>
                 \A e \in Before(c) :
                    e.ID \in SubmittedIDs(c) =>
                        /\ fields[e.ID].Name = e.Name
                        /\ fields[e.ID].Kind = e.Kind

(* A call with hasRecords true succeeded although it submitted another Name *)
(* and another Kind for a persisted field.                                  *)
C3_Witness ==
    \E c \in procs :
        /\ Succeeded(c) /\ hasRecords[c]
        /\ \E k \in DOMAIN arg[c] :
             /\ arg[c][k].ID \in IDsOf(Before(c))
             /\ arg[c][k].Name # pre[c][arg[c][k].ID].Name
             /\ arg[c][k].Kind # pre[c][arg[c][k].ID].Kind
             /\ fields[arg[c][k].ID].Label # pre[c][arg[c][k].ID].Label

-----------------------------------------------------------------------------
(* C4.  After a successful UpdateFields on a module that had no active      *)
(* field, the module has exactly as many active fields as the desired list  *)
(* has elements; the field for index i has Place i and the content that was *)
(* submitted at i; its ID is none of the submitted IDs, was not in the      *)
(* table before, and differs from the IDs of the other fields.              *)
C4_EmptyModule ==
    \A c \in procs :
        (Succeeded(c) /\ Before(c) = {}) =>
            /\ Cardinality(After(c)) = Len(arg[c])
            /\ \A k \in DOMAIN arg[c] :
                 /\ ff[c][k].ID # NULL
                 /\ ff[c][k].ID \notin DOMAIN pre[c]
                 /\ ff[c][k].ID \notin SubmittedIDs(c)
                 /\ \A j \in DOMAIN arg[c] : j # k => ff[c][j].ID # ff[c][k].ID
                 /\ ff[c][k].ID \in DOMAIN fields
                 /\ fields[ff[c][k].ID] \in After(c)
                 /\ fields[ff[c][k].ID].Place = k - 1
                 /\ Content(fields[ff[c][k].ID]) = Content(arg[c][k])

(* A list of full length, one element of it under a made-up ID, was         *)
(* reconciled against a module without fields.                              *)
C4_Witness ==
    \E c \in procs :
        /\ Succeeded(c) /\ Before(c) = {}
        /\ Len(arg[c]) = MaxLen
        /\ \E k \in DOMAIN arg[c] : arg[c][k].ID = FabricatedID

-----------------------------------------------------------------------------
(* C5.  Reordering.  The desired list is a reordering when it consists of   *)
(* exactly the module's active fields as they are persisted, each once, in  *)
(* any order.                                                               *)
Reordering(c) ==
    /\ Len(arg[c]) = Cardinality(Before(c))
    /\ Range(arg[c]) = Before(c)

(* C5 as claimed: after a successful reordering, for either value of        *)
(* hasRecords, every field differs from what it was in nothing but Place:   *)
(* ID, CreatedAt, UpdatedAt and content are as before.                      *)
C5_PlaceOnly ==
    \A c \in procs :
        (Succeeded(c) /\ Reordering(c)) =>
            \A e \in Before(c) :
                /\ e.ID \in DOMAIN fields
                /\ fields[e.ID] = [e EXCEPT !.Place = fields[e.ID].Place]

(* C5 as amended: after a successful reordering no row has come or gone,    *)
(* and every field differs from what it was in nothing but Place, which is  *)
(* its index in the list, and, when hasRecords is false, UpdatedAt, which   *)
(* is the time of the call; with hasRecords true UpdatedAt is as before.    *)
C5_PlaceAndUpdatedAt ==
    \A c \in procs :
        (Succeeded(c) /\ Reordering(c)) =>
            /\ DOMAIN fields = DOMAIN pre[c]
            /\ \A e \in Before(c) :
                 fields[e.ID] =
                    [e EXCEPT !.Place = LastIndex(arg[c], e.ID) - 1,
                              !.UpdatedAt = IF hasRecords[c] THEN e.UpdatedAt ELSE now]

(* Two fields were swapped by a call with hasRecords true *)
C5_Witness ==
    \E c \in procs :
        /\ Succeeded(c) /\ Reordering(c) /\ hasRecords[c]
        /\ Len(arg[c]) >= 2
        /\ \E e \in Before(c) : fields[e.ID].Place # e.Place

-----------------------------------------------------------------------------
(* C6.  Two unserialized calls on one module (specification SpecConc).      *)
(* The later writer is the caller that wrote to the table last.             *)
LaterWriter(b) == turns # << >> /\ turns[Len(turns)] = b

(* C6 as claimed: when both calls have succeeded, the module's active       *)
(* fields are the later writer's desired list: as many fields as the list   *)
(* has elements, each as the later writer wrote it.                         *)
C6_LaterWriterWins ==
    \A a, b \in procs :
        (a # b /\ Succeeded(a) /\ Succeeded(b) /\ LaterWriter(b)) =>
            /\ Cardinality(After(b)) = Len(ff[b])
            /\ \A k \in DOMAIN ff[b] :
                 /\ ff[b][k].ID \in DOMAIN fields
                 /\ fields[ff[b][k].ID] = ff[b][k]

(* The two calls ran as the claim describes them: both loaded their         *)
(* snapshot before either wrote, then a did all its writes, then b did.     *)
OneAfterTheOther(a, b) ==
    /\ a # b
    /\ Succeeded(a) /\ Succeeded(b)
    /\ early[a] /\ early[b]
    /\ turns = <<a, b>>

(* C6 as amended: when both calls loaded their snapshot before either       *)
(* wrote and b wrote after a had finished writing, then every field of b's  *)
(* list is persisted as b wrote it, at the Place of its index; every field  *)
(* a added under a generated ID is persisted as a wrote it; the module has  *)
(* no other active field; and a field that was there at the start and that  *)
(* b's list lacks has no row, whatever a did with it.                       *)
C6_LaterListPlusEarlierAdditions ==
    \A a, b \in procs :
        OneAfterTheOther(a, b) =>
            /\ \A k \in DOMAIN ff[b] :
                 /\ ff[b][k].ID \in DOMAIN fields
                 /\ fields[ff[b][k].ID] = ff[b][k]
                 /\ fields[ff[b][k].ID].Place = k - 1
            /\ \A j \in DOMAIN ff[a] :
                 arg[a][j].ID \notin DOMAIN pre[a] =>
                    /\ ff[a][j].ID \in DOMAIN fields
                    /\ fields[ff[a][j].ID] = ff[a][j]
            /\ \A r \in After(b) :
                 \/ \E k \in DOMAIN ff[b] : r = ff[b][k]
                 \/ \E j \in DOMAIN ff[a] :
                      arg[a][j].ID \notin DOMAIN pre[a] /\ r = ff[a][j]
            /\ \A id \in DOMAIN pre[a] :
                 id \notin { ff[b][k].ID : k \in DOMAIN ff[b] } =>
                    id \notin DOMAIN fields

(* The earlier writer added a field and edited an old one; the later writer *)
(* sent the old one back as it was.  The addition is still there, next to   *)
(* the later writer's list, and the edit is lost.                           *)
C6_Witness ==
    \E a, b \in procs :
        /\ OneAfterTheOther(a, b)
        /\ \E j \in DOMAIN arg[a] :
             arg[a][j].ID \notin DOMAIN pre[a] /\ fields[ff[a][j].ID] = ff[a][j]
        /\ \E j \in DOMAIN arg[a], k \in DOMAIN arg[b] :
             /\ arg[a][j].ID \in DOMAIN pre[a]
             /\ arg[b][k].ID = arg[a][j].ID
             /\ Content(arg[a][j]) # Content(pre[a][arg[a][j].ID])
             /\ Content(fields[arg[a][j].ID]) = Content(pre[a][arg[a][j].ID])
        /\ Cardinality(After(b)) > Len(ff[b])

-----------------------------------------------------------------------------
(* C7.  Partial failure.  When UpdateFields has returned:                   *)
(*  - with the error of a failed upsert, at index k: the elements after k   *)
(*    were not touched, every row of the table is either as it was before   *)
(*    the call or as an element below k was written, every element below k  *)
(*    is persisted as written, and the omitted fields are gone;             *)
(*  - with the error of a failed lookup or delete: no element was touched   *)
(*    and every row of the table is as it was before the call;              *)
(*  - with nil: the omitted fields are gone and every element is persisted  *)
(*    as written.                                                           *)
(* "As written" is by primary key: of the elements that share an ID the     *)
(* last one written is the row.                                             *)
WrittenBelow(c, k) ==
    \A j \in DOMAIN ff[c] :
        j < k =>
            LET id   == ff[c][j].ID
                last == Max({ i \in DOMAIN ff[c] : i < k /\ ff[c][i].ID = id })
            IN  id \in DOMAIN fields /\ fields[id] = ff[c][last]

OmittedGone(c) ==
    \A e \in Before(c) : e.ID \notin SubmittedIDs(c) => e.ID \notin DOMAIN fields

C7_PartialFailure ==
    \A c \in procs :
        Done(c) =>
            /\ err[c] \in {"nil", "storage", "Error updating module fields"}
            /\ err[c] = "Error updating module fields" =>
                 /\ \A j \in DOMAIN ff[c] : j > idx[c] => ff[c][j] = arg[c][j]
                 /\ \A id \in DOMAIN fields :
                      \/ id \in DOMAIN pre[c] /\ fields[id] = pre[c][id]
                      \/ \E j \in DOMAIN ff[c] : j < idx[c] /\ fields[id] = ff[c][j]
                 /\ WrittenBelow(c, idx[c])
                 /\ OmittedGone(c)
            /\ err[c] = "storage" =>
                 /\ ff[c] = arg[c]
                 /\ \A id \in DOMAIN fields :
                      id \in DOMAIN pre[c] /\ fields[id] = pre[c][id]
            /\ err[c] = "nil" =>
                 /\ WrittenBelow(c, Len(ff[c]) + 1)
                 /\ OmittedGone(c)

(* The second upsert failed after a field had been deleted and the first    *)
(* upsert had changed a row.                                                *)
C7_Witness ==
    \E c \in procs :
        /\ Done(c) /\ err[c] = "Error updating module fields"
        /\ idx[c] = 2
        /\ \E e \in Before(c) : e.ID \notin SubmittedIDs(c)
        /\ ff[c][1].ID \in DOMAIN pre[c]
        /\ fields[ff[c][1].ID] # pre[c][ff[c][1].ID]

-----------------------------------------------------------------------------
(* C8 as claimed.  Place invariant: after a successful UpdateFields with a  *)
(* desired list of length n the module has exactly n active fields, their   *)
(* Places are 0..n-1, and the field at Place i is the one submitted at      *)
(* index i.                                                                 *)
C8_PlaceInvariant ==
    \A c \in procs :
        Succeeded(c) =>
            /\ Cardinality(After(c)) = Len(arg[c])
            /\ { r.Place : r \in After(c) } = 0 .. (Len(arg[c]) - 1)
            /\ \A k \in DOMAIN ff[c] :
                 \E r \in After(c) : r.ID = ff[c][k].ID /\ r.Place = k - 1

-----------------------------------------------------------------------------
(* C9.  Field identity.  After a successful UpdateFields, a desired field   *)
(* whose submitted ID is that of a field active in the module when the call *)
(* started is persisted under that ID.  Any other desired field (ID zero,   *)
(* made up, or not among the module's active fields) is persisted under a   *)
(* generated ID that is not zero, is not the submitted ID and was not in    *)
(* the table before; and the call has created or changed no row under the   *)
(* submitted ID.                                                            *)
C9_FieldIdentity ==
    \A c \in procs :
        Succeeded(c) =>
            \A k \in DOMAIN arg[c] :
                LET sid == arg[c][k].ID
                    nid == ff[c][k].ID
                IN  /\ nid \in IDsOf(After(c))
                    /\ IF sid \in IDsOf(Before(c))
                       THEN nid = sid
                       ELSE /\ nid # sid
                            /\ nid # NULL
                            /\ nid \notin DOMAIN pre[c]
                            /\ sid \in DOMAIN fields =>
                                 sid \in DOMAIN pre[c] /\ fields[sid] = pre[c][sid]

(* One call kept the ID of a persisted field and replaced a made-up ID *)
C9_Witness ==
    \E c \in procs :
        /\ Succeeded(c)
        /\ \E k \in DOMAIN arg[c] :
             arg[c][k].ID = FabricatedID /\ ff[c][k].ID \in DOMAIN fields
        /\ \E k \in DOMAIN arg[c] :
             arg[c][k].ID \in IDsOf(Before(c)) /\ ff[c][k].ID = arg[c][k].ID

-----------------------------------------------------------------------------
(* C10.  CreatedAt is immutable.  No step changes the CreatedAt of a row    *)
(* that exists before and after the step, and a row that comes into being   *)
(* has the current time as its CreatedAt.                                   *)
C10_CreatedAtImmutable ==
    [][ /\ \A id \in DOMAIN fields :
             id \in DOMAIN fields' => fields'[id].CreatedAt = fields[id].CreatedAt
        /\ \A id \in DOMAIN fields' :
             id \notin DOMAIN fields => fields'[id].CreatedAt = now'
      ]_vars

(* A row written again at a later time, by a call that submitted a made-up  *)
(* CreatedAt for it, has the CreatedAt it had.                              *)
C10_Witness ==
    \E c \in procs :
        /\ Succeeded(c)
        /\ \E k \in DOMAIN arg[c] :
             /\ arg[c][k].ID \in IDsOf(Before(c))
             /\ arg[c][k].CreatedAt = BogusTime
             /\ fields[arg[c][k].ID].CreatedAt = pre[c][arg[c][k].ID].CreatedAt
             /\ fields[arg[c][k].ID].CreatedAt < now

-----------------------------------------------------------------------------
(* The module store: the compose_module table and module.Create, Update,    *)
(* DeleteByID and the lookups.  A string is a sequence of one-character     *)
(* strings.                                                                 *)

MaxOps == 3      \* calls to Create, Update and DeleteByID in one behaviour

(* strings.ToLower, on the letters the model uses *)
ToLowerChar(ch) ==
    CASE ch = "O" -> "o"
      [] ch = "C" -> "c"
      [] ch = "L" -> "l"
      [] OTHER    -> ch

ToLower(s) == [ k \in DOMAIN s |-> ToLowerChar(s[k]) ]

(* strings.TrimSpace *)
TrimSpace(s) ==
    LET ks == { k \in DOMAIN s : s[k] # " " }
    IN  IF ks = {} THEN << >>
        ELSE SubSeq(s, Min(ks), CHOOSE x \in ks : \A y \in ks : y <= x)

(* The namespaces, handles and names callers use *)
Namespaces == {1, 2}

Handles == { <<"o">>, <<"O">>, <<"c">> }

Names == { <<"O", "l">>, <<"o", "L">> }

(* module.query with a base that selects every row *)
queryAllRows(tbl) == { tbl[k] : k \in DOMAIN tbl }

(* module.query: the rows "WHERE deleted_at IS NULL" selects *)
query(tbl) == { tbl[k] : k \in { j \in DOMAIN tbl : tbl[j].DeletedAt = NULL } }

(* The value of the SQL expression findOneBy and Find compare *)
Column(r, field) ==
    CASE field = "id"            -> r.ID
      [] field = "LOWER(handle)" -> ToLower(r.Handle)
      [] field = "LOWER(name)"   -> ToLower(r.Name)

(* What findOneBy returns when no module is returned *)
NoModule == [ID |-> NULL]

(* rh.FetchOne: the storage fails, or hands over one of the rows selected,  *)
(* or leaves m as it was when there is none.                                *)
FetchOne(rows) ==
    { [m |-> NoModule, err |-> "storage"] }
        \cup (IF rows = {} THEN { [m |-> NoModule, err |-> "nil"] }
              ELSE { [m |-> r, err |-> "nil"] : r \in rows })

(* module.findOneBy: every result the call may have *)
findOneBy(tbl, namespaceID, field, value) ==
    LET q == { r \in query(tbl) :
                 Column(r, field) = value /\ r.NamespaceID = namespaceID }
    IN  { IF o.err # "nil" THEN [m |-> NoModule, err |-> o.err]
          ELSE IF o.m.ID = NULL THEN [m |-> NoModule, err |-> "ModuleNotFound"]
          ELSE o
          : o \in FetchOne(q) }

FindModuleByID(tbl, namespaceID, ID) ==
    findOneBy(tbl, namespaceID, "id", ID)

FindByHandle(tbl, namespaceID, handle) ==
    findOneBy(tbl, namespaceID, "LOWER(handle)", ToLower(TrimSpace(handle)))

FindByName(tbl, namespaceID, name) ==
    findOneBy(tbl, namespaceID, "LOWER(name)", ToLower(TrimSpace(name)))

-----------------------------------------------------------------------------
(* Create, Update, DeleteByID *)

(* Whether a write of row would leave two active modules of one namespace   *)
(* with the same lowercase handle (or name)                                 *)
Clash(tbl, row, field) ==
    /\ row.DeletedAt = NULL
    /\ \E r \in query(tbl) :
         /\ r.ID # row.ID
         /\ r.NamespaceID = row.NamespaceID
         /\ Column(r, field) = Column(row, field)

(* The uniqueness error a write of row is answered with, "nil" for none *)
Violation(tbl, row) ==
    IF Clash(tbl, row, "LOWER(handle)") THEN "ModuleHandleNotUnique"
    ELSE IF Clash(tbl, row, "LOWER(name)") THEN "ModuleNameNotUnique"
    ELSE "nil"

(* db.Insert: the table it leaves and the error it returns *)
Insert(tbl, row, ok) ==
    IF ~ ok \/ row.ID \in DOMAIN tbl
    THEN [tbl |-> tbl, err |-> "storage"]
    ELSE IF Violation(tbl, row) # "nil"
    THEN [tbl |-> tbl, err |-> Violation(tbl, row)]
    ELSE [tbl |-> [ k \in DOMAIN tbl \cup {row.ID} |->
                      IF k = row.ID THEN row ELSE tbl[k] ],
          err |-> "nil"]

(* db.Update(table, row, "id"): UPDATE ... SET every column WHERE id = ? *)
dbUpdate(tbl, row, ok) ==
    IF ~ ok
    THEN [tbl |-> tbl, err |-> "storage"]
    ELSE IF row.ID \notin DOMAIN tbl
    THEN [tbl |-> tbl, err |-> "nil"]
    ELSE IF Violation(tbl, row) # "nil"
    THEN [tbl |-> tbl, err |-> Violation(tbl, row)]
    ELSE [tbl |-> [tbl EXCEPT ![row.ID] = row], err |-> "nil"]

(* Create that leaves the submitted ID and timestamps alone *)
StampsNothing(mod, id, t) == mod

(* module.Create, before the insert: ID, CreatedAt, UpdatedAt *)
Stamps(mod, id, t) ==
    [mod EXCEPT !.ID = id, !.CreatedAt = t, !.UpdatedAt = NULL]

(* Create that reports success whatever the insert returned *)
CreateResultDropsError(mod, r) == [m |-> mod, err |-> "nil"]

(* module.Create, after the insert: what it returns *)
CreateResult(mod, r) ==
    IF r.err # "nil" THEN [m |-> NoModule, err |-> r.err]
    ELSE [m |-> mod, err |-> "nil"]

(* One call to the module store takes one rounding step of the clock *)
Record(op, in, out, tbl) ==
    /\ modules' = tbl
    /\ now' = now + 1
    /\ lastCall' = [op |-> op, in |-> in, out |-> out, pre |-> modules]
    /\ found' = found
    /\ UNCHANGED mailVars
    /\ UNCHANGED <<fields, procs, moduleIDs, calls, pc, moduleID, ff,
                   hasRecords, existing, idx, err, arg, pre, again, turns,
                   early>>

(* module.Create(mod) *)
Create(mod, ok) ==
    LET row == Stamps(mod, nextID, now + 1)
        r   == Insert(modules, row, ok)
    IN  /\ now < MaxOps
        /\ nextID' = nextID + 1
        /\ Record("Create", mod, CreateResult(row, r), r.tbl)

(* module.Update, before the write: UpdatedAt *)
UpdateStamps(mod, t) == [mod EXCEPT !.UpdatedAt = t]

(* module.Update(mod): the entity comes back next to the error *)
Update(mod, ok) ==
    LET row == UpdateStamps(mod, now + 1)
        r   == dbUpdate(modules, row, ok)
    IN  /\ now < MaxOps
        /\ nextID' = nextID
        /\ Record("Update", mod, [m |-> row, err |-> r.err], r.tbl)

(* DeleteByID that matches on the ID alone *)
ExecAnyNamespace(tbl, namespaceID, ID, t) ==
    [ k \in DOMAIN tbl |->
        IF k = ID THEN [tbl[k] EXCEPT !.DeletedAt = t] ELSE tbl[k] ]

(* UPDATE compose_module SET deleted_at = NOW()                             *)
(*  WHERE rel_namespace = ? AND id = ?                                      *)
ExecDelete(tbl, namespaceID, ID, t) ==
    [ k \in DOMAIN tbl |->
        IF tbl[k].NamespaceID = namespaceID /\ k = ID
        THEN [tbl[k] EXCEPT !.DeletedAt = t]
        ELSE tbl[k] ]

(* module.DeleteByID(namespaceID, moduleID) *)
DeleteByID(namespaceID, ID, ok) ==
    /\ now < MaxOps
    /\ nextID' = nextID
    /\ Record("DeleteByID", [NamespaceID |-> namespaceID, ID |-> ID],
              [m |-> NoModule, err |-> IF ok THEN "nil" ELSE "storage"],
              IF ok THEN ExecDelete(modules, namespaceID, ID, now + 1)
              ELSE modules)

(* What callers pass to Create: a new entity, with or without an ID and     *)
(* timestamps of the caller's making; the ID may be one that is in use.     *)
NewModules ==
    { [ID |-> i[1], NamespaceID |-> n, Handle |-> h, Name |-> nm,
       JSON |-> "{}", CreatedAt |-> i[2], UpdatedAt |-> i[2],
       DeletedAt |-> NULL] :
         i \in { <<NULL, NULL>>, <<FabricatedID, BogusTime>> }
                 \cup { <<id, BogusTime>> : id \in DOMAIN modules },
         n \in Namespaces, h \in Handles, nm \in Names }

(* What callers pass to Update: a row they read, with one change merged in  *)
(* (handle, name, namespace, configuration, or the deletion undone), or an  *)
(* entity under an ID that is not in the table.                             *)
Merged(r) ==
    { [r EXCEPT !.Handle = h] : h \in Handles }
        \cup { [r EXCEPT !.Name = nm] : nm \in Names }
        \cup { [r EXCEPT !.NamespaceID = n] : n \in Namespaces }
        \cup { [r EXCEPT !.JSON = "{\"a\":1}"], [r EXCEPT !.DeletedAt = NULL] }

ChangedModules ==
    UNION { Merged(modules[k]) : k \in DOMAIN modules }
        \cup { [ID |-> FabricatedID, NamespaceID |-> 1, Handle |-> <<"c">>,
                Name |-> <<"O", "l">>, JSON |-> "{}", CreatedAt |-> BogusTime,
                UpdatedAt |-> NULL, DeletedAt |-> NULL] }

(* The IDs callers pass to DeleteByID *)
KnownIDs == DOMAIN modules \cup {FabricatedID}

CreateOK == \E mod \in NewModules : Create(mod, TRUE)
CreateFails == \E mod \in NewModules : Create(mod, FALSE)
UpdateOK == \E mod \in ChangedModules : Update(mod, TRUE)
UpdateFails == \E mod \in ChangedModules : Update(mod, FALSE)
DeleteOK == \E n \in Namespaces, id \in KnownIDs : DeleteByID(n, id, TRUE)
DeleteFails == \E n \in Namespaces, id \in KnownIDs : DeleteByID(n, id, FALSE)

NextMod ==
    \/ CreateOK
    \/ CreateFails
    \/ UpdateOK
    \/ UpdateFails
    \/ DeleteOK
    \/ DeleteFails

SpecMod == Init /\ [][NextMod]_vars

-----------------------------------------------------------------------------
(* module.Find.  A filter is a record NamespaceID, Query, Name, Handle,     *)
(* IsReadable, Sort, Page, PerPage, Count.  Sort is the specification       *)
(* string as its comma-separated items, each item its words: "id ASC" is    *)
(* << <<"id", "ASC">> >> and "" is << >>.  IsReadable is << >> for nil and  *)
(* <<S>> for a predicate that holds of the modules whose ID is in S.        *)

(* module.columns *)
columns ==
    { "id", "rel_namespace", "handle", "name", "json", "created_at",
      "updated_at", "deleted_at" }

(* Find that leaves an empty Sort empty *)
ResolvedKeepsSort(filter) == filter

(* f = filter, with the default order when none is given *)
Resolved(filter) ==
    IF filter.Sort = << >>
    THEN [filter EXCEPT !.Sort = << <<"id", "ASC">> >>]
    ELSE filter

(* SQL LIKE: % matches any run of characters, _ any one character *)
RECURSIVE Like(_, _)
Like(s, p) ==
    IF p = << >> THEN s = << >>
    ELSE IF p[1] = "%"
    THEN Like(s, Tail(p)) \/ (s # << >> /\ Like(Tail(s), p))
    ELSE /\ s # << >>
         /\ p[1] = "_" \/ p[1] = s[1]
         /\ Like(Tail(s), Tail(p))

(* The WHERE clause Find adds to module.query *)
Where(r, f) ==
    /\ f.NamespaceID > 0 => r.NamespaceID = f.NamespaceID
    /\ f.Query # << >> =>
         LET q == <<"%">> \o ToLower(f.Query) \o <<"%">>
         IN  Like(ToLower(r.Name), q) \/ Like(ToLower(r.Handle), q)
    /\ f.Name # << >> => ToLower(r.Name) = ToLower(f.Name)
    /\ f.Handle # << >> => ToLower(r.Handle) = ToLower(f.Handle)
    /\ f.IsReadable # << >> => r.ID \in f.IsReadable[1]

(* rh.ParseOrder: the items of the specification as (column, direction)     *)
(* pairs, or an error when an item names a column that is not in the list   *)
ParseOrder(sort, cols) ==
    IF \E k \in DOMAIN sort : sort[k][1] \notin cols
    THEN [orderBy |-> << >>, err |-> "OrderSpecInvalid"]
    ELSE [orderBy |-> sort, err |-> "nil"]

(* The value a row is ordered by.  The order of strings is the collation's  *)
(* and is left open: rows that differ in a string column only may come in   *)
(* any order.                                                               *)
SortKey(r, col) ==
    CASE col = "id"            -> r.ID
      [] col = "rel_namespace" -> r.NamespaceID
      [] col = "created_at"    -> r.CreatedAt
      [] col = "updated_at"    -> r.UpdatedAt
      [] col = "deleted_at"    -> r.DeletedAt
      [] OTHER                 -> 0

(* ORDER BY orderBy puts x strictly before y *)
RECURSIVE Precedes(_, _, _)
Precedes(x, y, orderBy) ==
    IF orderBy = << >> THEN FALSE
    ELSE LET col  == orderBy[1][1]
             desc == Len(orderBy[1]) > 1 /\ orderBy[1][2] = "DESC"
         IN  IF SortKey(x, col) = SortKey(y, col)
             THEN Precedes(x, y, Tail(orderBy))
             ELSE IF desc THEN SortKey(x, col) > SortKey(y, col)
                  ELSE SortKey(x, col) < SortKey(y, col)

InOrder(s, orderBy) ==
    \A a, b \in DOMAIN s : a < b => ~ Precedes(s[b], s[a], orderBy)

(* rh.Count: the number of rows the query selects *)
Count(rows, ok) ==
    IF ok THEN [n |-> Cardinality(rows), err |-> "nil"]
    ELSE [n |-> 0, err |-> "storage"]

(* rh.FetchPaged: every page the SELECT may return.  Pages count from 1;    *)
(* page p holds the rows (p-1)*perPage+1 .. p*perPage of the ordered result *)
FetchPaged(rows, orderBy, page, perPage) ==
    LET n     == Cardinality(rows)
        first == (page - 1) * perPage + 1
        end   == IF page * perPage < n THEN page * perPage ELSE n
    IN  { IF first > end THEN << >> ELSE SubSeq(s, first, end) :
            s \in { t \in [1..n -> rows] : Range(t) = rows /\ InOrder(t, orderBy) } }

(* Find that goes on to the fetch when the count is zero *)
StopsOnErrorOnly(cnt) == cnt.err # "nil"

(* Find returns after the count when it failed or counted nothing *)
Stops(cnt) == cnt.err # "nil" \/ cnt.n = 0

(* module.Find: every result (set, f, err) the call may have, with the      *)
(* storage calls it issued, in order                                        *)
Find(tbl, filter, okCount, okFetch) ==
    LET f    == Resolved(filter)
        rows == { r \in query(tbl) : Where(r, f) }
        po   == ParseOrder(f.Sort, columns)
        cnt  == Count(rows, okCount)
        fc   == [f EXCEPT !.Count = cnt.n]
    IN  IF po.err # "nil"
        THEN { [set |-> << >>, f |-> f, err |-> po.err, log |-> << >>] }
        ELSE IF Stops(cnt)
        THEN { [set |-> << >>, f |-> fc, err |-> cnt.err, log |-> <<"Count">>] }
        ELSE IF ~ okFetch
        THEN { [set |-> << >>, f |-> fc, err |-> "storage",
                log |-> <<"Count", "FetchPaged">>] }
        ELSE { [set |-> p, f |-> fc, err |-> "nil",
                log |-> <<"Count", "FetchPaged">>] :
                 p \in FetchPaged(rows, po.orderBy, f.Page, f.PerPage) }

-----------------------------------------------------------------------------
(* Vocabulary of the properties of the module store *)

(* A lookup result that carries a module *)
Hit(o) == o.err = "nil"

(* The lookup fails with ModuleNotFound unless the storage itself fails *)
NotFound(outcomes) ==
    /\ \A o \in outcomes : o.err \in {"ModuleNotFound", "storage"} /\ o.m = NoModule
    /\ \E o \in outcomes : o.err = "ModuleNotFound"

(* r is a row of the table as it is, and is not deleted *)
ActiveModule(r) ==
    r.ID \in DOMAIN modules /\ modules[r.ID] = r /\ r.DeletedAt = NULL

(* The keys callers look up: the handles and names in use, also padded *)
Padded(s) == <<" ">> \o s \o <<" ">>

LookupKeys == Handles \cup Names \cup { Padded(s) : s \in Handles \cup Names }

(* A filter that selects everything and asks for the first page *)
AnyFilter ==
    [NamespaceID |-> 0, Query |-> << >>, Name |-> << >>, Handle |-> << >>,
     IsReadable |-> << >>, Sort |-> << >>, Page |-> 1, PerPage |-> MaxOps + 1,
     Count |-> 0]

(* The filters C11 looks at: all modules, or those of one namespace, with   *)
(* or without a search fragment                                             *)
LookupFilters ==
    { [AnyFilter EXCEPT !.NamespaceID = n, !.Query = q] :
        n \in {0} \cup Namespaces, q \in { << >>, <<"O">> } }

(* C11.  Deleted modules are absent from every lookup.  In every state:     *)
(* whatever FindByID, FindByHandle, FindByName and Find return is a row of  *)
(* the table whose DeletedAt is null (for the three, of the namespace       *)
(* asked for); FindByID fails with ModuleNotFound whenever the namespace    *)
(* has no active module with that ID, whatever deleted rows or rows of      *)
(* other namespaces carry the ID; and right after a successful DeleteByID   *)
(* FindByID of the same pair fails with ModuleNotFound.                     *)
C11_DeletedAbsent ==
    /\ \A n \in Namespaces, id \in KnownIDs \cup {NULL} :
         LET os == FindModuleByID(modules, n, id)
         IN  /\ \A o \in os :
                  Hit(o) => ActiveModule(o.m) /\ o.m.ID = id /\ o.m.NamespaceID = n
             /\ (~ \E r \in queryAllRows(modules) :
                     r.ID = id /\ r.NamespaceID = n /\ r.DeletedAt = NULL)
                  => NotFound(os)
    /\ \A n \in Namespaces, key \in LookupKeys :
         \A o \in FindByHandle(modules, n, key) \cup FindByName(modules, n, key) :
             Hit(o) => ActiveModule(o.m) /\ o.m.NamespaceID = n
    /\ \A filter \in LookupFilters :
         \A o \in Find(modules, filter, TRUE, TRUE) :
             \A k \in DOMAIN o.set : ActiveModule(o.set[k])
    /\ (lastCall.op = "DeleteByID" /\ lastCall.out.err = "nil") =>
         NotFound(FindModuleByID(modules, lastCall.in.NamespaceID, lastCall.in.ID))

(* An active module has just been deleted: its row is still there, the      *)
(* lookup by its ID in its namespace fails, and so does the lookup of a     *)
(* module that is active in the other namespace.                            *)
C11_Witness ==
    /\ lastCall.op = "DeleteByID" /\ lastCall.out.err = "nil"
    /\ lastCall.in.ID \in DOMAIN lastCall.pre
    /\ lastCall.pre[lastCall.in.ID].DeletedAt = NULL
    /\ lastCall.pre[lastCall.in.ID].NamespaceID = lastCall.in.NamespaceID
    /\ lastCall.in.ID \in DOMAIN modules
    /\ \E r \in query(modules) :
         NotFound(FindModuleByID(modules, 3 - r.NamespaceID, r.ID))

-----------------------------------------------------------------------------
(* The active modules of the namespace that have the lowercase handle (or   *)
(* name) of mod                                                             *)
SameKey(tbl, mod, field) ==
    { r \in query(tbl) :
        r.NamespaceID = mod.NamespaceID /\ Column(r, field) = Column(mod, field) }

-----------------------------------------------------------------------------
(* Find as a function of the table and the filter: the table is one that    *)
(* Create and DeleteByID calls have built, the filter is the caller's.      *)

MaxRows == 3     \* most module rows in the table Find is run on
MaxPage == 2     \* largest Page and PerPage a filter asks for

(* The modules there are to create, in the order of their creation *)
Catalogue ==
    << [NamespaceID |-> 1, Handle |-> <<"c", "o">>, Name |-> <<"O", "l">>],
       [NamespaceID |-> 1, Handle |-> <<"o">>,      Name |-> <<"C", "o", "l">>],
       [NamespaceID |-> 2, Handle |-> <<"c", "o">>, Name |-> <<"l">>],
       [NamespaceID |-> 1, Handle |-> <<"l">>,      Name |-> <<"o", "c">>],
       [NamespaceID |-> 2, Handle |-> <<"O", "c">>, Name |-> <<"L", "o">>] >>

(* The table after Create of the first n modules of the catalogue, at times *)
(* 1..n, and DeleteByID, at time n+1, of those in gone                      *)
Populated(n, gone) ==
    [ k \in 1..n |->
        [ID |-> k, NamespaceID |-> Catalogue[k].NamespaceID,
         Handle |-> Catalogue[k].Handle, Name |-> Catalogue[k].Name,
         JSON |-> "{}", CreatedAt |-> k, UpdatedAt |-> NULL,
         DeletedAt |-> IF k \in gone THEN n + 1 ELSE NULL] ]

(* The filters callers pass to Find *)
Filters ==
    [ NamespaceID : {0, 1, 2},
      Query       : { << >>, <<"C">>, <<"o", "l">>, <<"_">>, <<"c", "%", "l">> },
      Name        : { << >>, <<"o", "L">> },
      Handle      : { << >>, <<"C", "O">> },
      IsReadable  : { << >>, << {1, 3} >> },
      Sort        : { << >>,
                      << <<"rel_namespace", "DESC">>, <<"id">> >>,
                      << <<"id">>, <<"owner", "ASC">> >> },
      Page        : 1..MaxPage,
      PerPage     : 1..MaxPage,
      Count       : {0} ]

InitFind ==
    /\ procs = {1}
    /\ moduleIDs = {1}
    /\ InitCommon
    /\ \E n \in 0..MaxRows : \E gone \in SUBSET (1..n) :
         modules = Populated(n, gone)
    /\ lastCall = NoCall
    /\ found = NoCall
    /\ NoMail

(* One call Find(filter); okCount and okFetch tell whether the storage      *)
(* answers the count and the page fetch                                     *)
FindCall(okCount, okFetch) ==
    /\ found = NoCall
    /\ \E filter \in Filters :
         \E o \in Find(modules, filter, okCount, okFetch) :
            found' = [op |-> "Find", in |-> filter, out |-> o]
    /\ UNCHANGED <<fields, nextID, now, procs, moduleIDs, calls, pc, moduleID,
                   ff, hasRecords, existing, idx, err, arg, pre, again, turns,
                   early, modules, lastCall, mailVars>>

FindOK == FindCall(TRUE, TRUE)
FindCountFails == FindCall(FALSE, TRUE)
FindFetchFails == FindCall(TRUE, FALSE)

NextFind ==
    \/ FindOK
    \/ FindCountFails
    \/ FindFetchFails

SpecFind == InitFind /\ [][NextFind]_vars

-----------------------------------------------------------------------------
(* Vocabulary of the properties of Find *)

(* The call to Find that has been made, its filter and its result *)
Found == found.op = "Find"

(* The rows of the table the filter selects *)
MatchSet(filter) == { r \in query(modules) : Where(r, filter) }

(* The order the returned filter asks for *)
OrderOf(f) == ParseOrder(f.Sort, columns).orderBy

(* The number of rows that sort strictly before r, and of those that do not *)
(* sort after it                                                            *)
Ahead(rows, r, orderBy) == Cardinality({ x \in rows : Precedes(x, r, orderBy) })

UpTo(rows, r, orderBy) == Cardinality({ x \in rows : ~ Precedes(r, x, orderBy) })

(* C13.  Count, then one page.  Find issues the count before any fetch and  *)
(* at most one fetch.  When it succeeds, the returned filter's Count is the *)
(* number of rows the filter selects, whatever Page and PerPage are; when   *)
(* that is zero, the set is empty and no fetch was issued; otherwise one    *)
(* fetch was issued and the set is page Page of the selected rows in sort   *)
(* order: it holds the rows at positions (Page-1)*PerPage+1 .. Page*PerPage *)
(* of that order, as far as there are any.                                  *)
C13_CountThenPage ==
    Found =>
        LET o     == found.out
            rows  == MatchSet(found.in)
            n     == Cardinality(rows)
            skip  == (found.in.Page - 1) * found.in.PerPage
            left  == IF n > skip THEN n - skip ELSE 0
            size  == IF left < found.in.PerPage THEN left ELSE found.in.PerPage
        IN  /\ o.log \in { << >>, <<"Count">>, <<"Count", "FetchPaged">> }
            /\ o.err = "nil" =>
                 /\ o.f.Count = n
                 /\ n = 0 => o.set = << >> /\ o.log = <<"Count">>
                 /\ n > 0 =>
                      /\ o.log = <<"Count", "FetchPaged">>
                      /\ Len(o.set) = size
                      /\ \A j \in DOMAIN o.set :
                           /\ o.set[j] \in rows
                           /\ \A i \in DOMAIN o.set : i # j => o.set[i] # o.set[j]
                           /\ Ahead(rows, o.set[j], OrderOf(o.f)) <= skip + j - 1
                           /\ UpTo(rows, o.set[j], OrderOf(o.f)) >= skip + j

(* Page 2 with PerPage 1 over three selected rows, in the default order, is *)
(* the second row, and Count is 3.                                          *)
C13_Witness ==
    /\ Found /\ found.out.err = "nil"
    /\ found.in.Page = 2 /\ found.in.PerPage = 1 /\ found.in.Sort = << >>
    /\ found.out.f.Count = 3
    /\ Len(found.out.set) = 1 /\ found.out.set[1].ID = 2

-----------------------------------------------------------------------------
(* The sort specification names a column module.columns does not list *)
UnknownColumn(sort) == \E k \in DOMAIN sort : sort[k][1] \notin columns

(* C14.  Ordering.  When the filter's Sort is empty, the filter Find        *)
(* returns has Sort "id ASC", and the rows of a successful call come in     *)
(* ascending order of ID.  When Sort names a column that is not among the   *)
(* module table's columns, Find returns an error and no rows and issues no  *)
(* storage call, neither the count nor a fetch.                             *)
C14_Ordering ==
    Found =>
        LET o == found.out
        IN  /\ found.in.Sort = << >> =>
                 /\ o.f.Sort = << <<"id", "ASC">> >>
                 /\ o.err = "nil" =>
                      \A i, j \in DOMAIN o.set : i < j => o.set[i].ID < o.set[j].ID
            /\ UnknownColumn(found.in.Sort) =>
                 /\ o.err = "OrderSpecInvalid"
                 /\ o.set = << >>
                 /\ o.log = << >>

(* Find was refused for an unknown column although the filter selects rows *)
C14_Witness ==
    /\ Found
    /\ UnknownColumn(found.in.Sort)
    /\ found.out.err = "OrderSpecInvalid"
    /\ Cardinality(MatchSet(found.in)) >= 2

-----------------------------------------------------------------------------
(* The row DeleteByID(namespaceID, ID) is about: in the table, with that ID *)
(* and that namespace                                                       *)
Matching(tbl, in) ==
    { k \in DOMAIN tbl : k = in.ID /\ tbl[k].NamespaceID = in.NamespaceID }

(* C15.  DeleteByID.  After DeleteByID(namespaceID, ID) the table has the   *)
(* rows it had; the row with that ID and that namespace, if there is one    *)
(* and the storage did not fail, differs from what it was in DeletedAt      *)
(* only, which is the time of the call and not null; every other row is as  *)
(* it was.  The call returns no error but the storage's own: when no row    *)
(* matches, because the ID is unknown or belongs to another namespace, it   *)
(* returns nil and the table is unchanged.                                  *)
C15_SoftDeleteScoped ==
    lastCall.op = "DeleteByID" =>
        LET hit == Matching(lastCall.pre, lastCall.in)
        IN  /\ DOMAIN modules = DOMAIN lastCall.pre
            /\ lastCall.out.err \in {"nil", "storage"}
            /\ \A k \in DOMAIN modules :
                 IF k \in hit /\ lastCall.out.err = "nil"
                 THEN /\ modules[k] = [lastCall.pre[k] EXCEPT !.DeletedAt = now]
                      /\ modules[k].DeletedAt # NULL
                 ELSE modules[k] = lastCall.pre[k]
            /\ (hit = {} /\ lastCall.out.err # "storage") =>
                 lastCall.out.err = "nil" /\ modules = lastCall.pre

(* DeleteByID was called with the ID of an active module and the other      *)
(* namespace: it returned nil and the module is still active.               *)
C15_Witness ==
    /\ lastCall.op = "DeleteByID" /\ lastCall.out.err = "nil"
    /\ lastCall.in.ID \in DOMAIN lastCall.pre
    /\ lastCall.pre[lastCall.in.ID].NamespaceID # lastCall.in.NamespaceID
    /\ lastCall.pre[lastCall.in.ID].DeletedAt = NULL
    /\ modules[lastCall.in.ID].DeletedAt = NULL
    /\ Cardinality(DOMAIN modules) >= 2

-----------------------------------------------------------------------------
(* sub occurs in s as a run of consecutive characters *)
Substring(sub, s) ==
    \E i \in 0..Len(s) :
        i + Len(sub) <= Len(s) /\ SubSeq(s, i + 1, i + Len(sub)) = sub

(* The reference predicate of C16 *)
Reference(filter) ==
    { r \in queryAllRows(modules) :
        /\ r.DeletedAt = NULL
        /\ filter.NamespaceID = 0 \/ filter.NamespaceID = r.NamespaceID
        /\ \/ filter.Query = << >>
           \/ Substring(ToLower(filter.Query), ToLower(r.Name))
           \/ Substring(ToLower(filter.Query), ToLower(r.Handle))
        /\ filter.Name = << >> \/ ToLower(filter.Name) = ToLower(r.Name)
        /\ filter.Handle = << >> \/ ToLower(filter.Handle) = ToLower(r.Handle)
        /\ filter.IsReadable = << >> \/ r.ID \in filter.IsReadable[1] }

(* C16 as claimed.  The modules a successful Find counts and returns are    *)
(* those of the reference predicate: Count is their number, every row       *)
(* returned is one of them, and the first page holds all of them when       *)
(* PerPage is not less than their number.                                   *)
C16_MatchesReference ==
    (Found /\ found.out.err = "nil") =>
        LET o   == found.out
            ref == Reference(found.in)
        IN  /\ o.f.Count = Cardinality(ref)
            /\ \A j \in DOMAIN o.set : o.set[j] \in ref
            /\ (found.in.Page = 1 /\ found.in.PerPage >= Cardinality(ref)) =>
                 Range(o.set) = ref

-----------------------------------------------------------------------------
(* C17.  Create and Update stamp the module.  After Create(mod): when it    *)
(* succeeded, the table has one row more, under an ID that is not null, is  *)
(* not the ID the caller passed and was not in the table; the row is mod    *)
(* with that ID, CreatedAt the time of the call and UpdatedAt null, and is  *)
(* what Create returns; when it failed, it returns the error of the insert  *)
(* and no module, and the table is as it was.  After Update(mod): the       *)
(* entity returned has UpdatedAt the time of the call, every row under      *)
(* another ID is as it was, no row has come or gone, and when the update    *)
(* succeeded on an ID that is in the table the row is mod with that         *)
(* UpdatedAt.                                                               *)
C17_Stamps ==
    /\ lastCall.op = "Create" =>
         LET o == lastCall.out
         IN  IF o.err = "nil"
             THEN /\ o.m.ID # NULL
                  /\ o.m.ID # lastCall.in.ID
                  /\ o.m.ID \notin DOMAIN lastCall.pre
                  /\ o.m = [lastCall.in EXCEPT !.ID = o.m.ID, !.CreatedAt = now,
                                               !.UpdatedAt = NULL]
                  /\ DOMAIN modules = DOMAIN lastCall.pre \cup {o.m.ID}
                  /\ modules[o.m.ID] = o.m
                  /\ \A k \in DOMAIN lastCall.pre : modules[k] = lastCall.pre[k]
             ELSE /\ o.m = NoModule
                  /\ modules = lastCall.pre
    /\ lastCall.op = "Update" =>
         LET o == lastCall.out
         IN  /\ o.m = [lastCall.in EXCEPT !.UpdatedAt = now]
             /\ DOMAIN modules = DOMAIN lastCall.pre
             /\ \A k \in DOMAIN modules :
                  k # lastCall.in.ID => modules[k] = lastCall.pre[k]
             /\ lastCall.in.ID \in DOMAIN modules =>
                  modules[lastCall.in.ID] =
                     IF o.err = "nil" THEN o.m ELSE lastCall.pre[lastCall.in.ID]

(* Create was passed the ID of a module that exists and timestamps of the   *)
(* caller's making, and succeeded next to that module.                      *)
C17_Witness ==
    /\ lastCall.op = "Create" /\ lastCall.out.err = "nil"
    /\ lastCall.in.ID \in DOMAIN lastCall.pre
    /\ lastCall.in.CreatedAt = BogusTime /\ lastCall.in.UpdatedAt = BogusTime
    /\ modules[lastCall.in.ID] = lastCall.pre[lastCall.in.ID]
    /\ lastCall.out.m.ID \in DOMAIN modules

-----------------------------------------------------------------------------
(* Two modules.  The field table holds the fields of modules 1 and 2, k1    *)
(* and k2 of them, as one successful UpdateFields per module leaves them;   *)
(* when marked, the first field of each module has since been soft-deleted  *)
(* by another writer of the table.  One caller makes one call to            *)
(* UpdateFields, on either module, with a list that may carry rows of both, *)
(* and FindFields is called once, before or after it.                       *)

TwoModules(k1, k2, marked) ==
    [ i \in 1..(k1 + k2) |->
        LET m == IF i <= k1 THEN 1 ELSE 2
            j == IF i <= k1 THEN i ELSE i - k1
            r == LoopBody(Added, << >>, m, j, FALSE, i, 1)
        IN  IF marked /\ j = 1 THEN [r EXCEPT !.DeletedAt = 1] ELSE r ]

InitTwoModules ==
    /\ procs = {1}
    /\ moduleIDs = {1, 2}
    /\ \E k1 \in 0..MaxLen, k2 \in 0..MaxLen, marked \in BOOLEAN :
         /\ fields = TwoModules(k1, k2, marked)
         /\ nextID = k1 + k2 + 1
    /\ now = 1
    /\ calls = 0
    /\ pc = [c \in procs |-> "idle"]
    /\ moduleID = [c \in procs |-> NULL]
    /\ ff = [c \in procs |-> << >>]
    /\ hasRecords = [c \in procs |-> FALSE]
    /\ existing = [c \in procs |-> << >>]
    /\ idx = [c \in procs |-> 0]
    /\ err = [c \in procs |-> "nil"]
    /\ arg = [c \in procs |-> << >>]
    /\ pre = [c \in procs |-> << >>]
    /\ again = [c \in procs |-> FALSE]
    /\ turns = << >>
    /\ early = [c \in procs |-> FALSE]
    /\ modules = Populated(2, {})
    /\ lastCall = NoCall
    /\ found = NoCall
    /\ NoMail

(* The one call to UpdateFields *)
CallAcross(c) ==
    /\ pc[c] = "idle"
    /\ calls = 0
    /\ found = NoCall
    /\ \E m \in moduleIDs, h \in BOOLEAN :
         \E F \in DesiredLists(fields) :
            Begin(c, m, F, h, FALSE)

(* The sets of module IDs callers pass to FindFields; module 3 has no field *)
ModuleIDLists == SUBSET {1, 2, 3}

(* module.FindFields: every result (ff, err) the call may have, with the    *)
(* storage calls it issued                                                  *)
FindFieldsLogged(tbl, ids, ok) ==
    IF ids = {}
    THEN { [ff |-> << >>, err |-> "nil", log |-> << >>] }
    ELSE IF ~ ok
    THEN { [ff |-> << >>, err |-> "storage", log |-> <<"Select">>] }
    ELSE { [ff |-> s, err |-> "nil", log |-> <<"Select">>] :
             s \in FindFields(tbl, ids) }

(* One call FindFields(ids...) while nobody is inside UpdateFields *)
FindFieldsCall(ok) ==
    /\ \A c \in procs : pc[c] = "idle"
    /\ found = NoCall
    /\ \E ids \in ModuleIDLists :
         \E o \in FindFieldsLogged(fields, ids, ok) :
            found' = [op |-> "FindFields", in |-> ids, out |-> o]
    /\ UNCHANGED <<fields, nextID, now, procs, moduleIDs, calls, pc, moduleID,
                   ff, hasRecords, existing, idx, err, arg, pre, again, turns,
                   early, modules, lastCall, mailVars>>

FindFieldsOK == FindFieldsCall(TRUE)
FindFieldsFails == FindFieldsCall(FALSE)

NextTwoModules ==
    \/ \E c \in procs : CallAcross(c)
    \/ \E c \in procs : StepFindFields(c)
    \/ \E c \in procs : WalkDelete(c)
    \/ \E c \in procs : StepLoop(c)
    \/ \E c \in procs : Return(c)
    \/ FindFieldsOK
    \/ FindFieldsFails

SpecTwoModules == InitTwoModules /\ [][NextTwoModules]_vars

-----------------------------------------------------------------------------
(* C18.  FindFields.  A successful FindFields(ids...) returns each field    *)
(* row whose ModuleID is among ids and whose DeletedAt is null exactly      *)
(* once, and nothing else, in ascending order of ModuleID and, within a     *)
(* module, of Place.  With no ID given it returns the empty list and nil    *)
(* and issues no storage call.                                              *)
C18_FindFields ==
    found.op = "FindFields" =>
        LET o    == found.out
            want == { r \in { fields[k] : k \in DOMAIN fields } :
                        r.ModuleID \in found.in /\ r.DeletedAt = NULL }
        IN  /\ found.in = {} =>
                 o.ff = << >> /\ o.err = "nil" /\ o.log = << >>
            /\ o.err = "nil" =>
                 /\ Len(o.ff) = Cardinality(want)
                 /\ { o.ff[k] : k \in DOMAIN o.ff } = want
                 /\ \A a, b \in DOMAIN o.ff :
                      a < b =>
                         \/ o.ff[a].ModuleID < o.ff[b].ModuleID
                         \/ /\ o.ff[a].ModuleID = o.ff[b].ModuleID
                            /\ o.ff[a].Place <= o.ff[b].Place

(* FindFields(1, 2), called after an UpdateFields, returned fields of both   *)
(* modules while each module also has a soft-deleted field.                 *)
C18_Witness ==
    /\ found.op = "FindFields" /\ found.in = {1, 2} /\ found.out.err = "nil"
    /\ \E a, b \in DOMAIN found.out.ff :
         found.out.ff[a].ModuleID = 1 /\ found.out.ff[b].ModuleID = 2
    /\ \A m \in {1, 2} :
         \E k \in DOMAIN fields :
            fields[k].ModuleID = m /\ fields[k].DeletedAt # NULL
    /\ calls = 1

-----------------------------------------------------------------------------
(* C19.  Isolation.  No step of UpdateFields(m, F, hasRecords) changes or   *)
(* removes a field row of a module other than m, creates a row for a module *)
(* other than m, or changes the module table.  When the call has succeeded, *)
(* every element of F submitted under the ID of a field of another module   *)
(* is persisted in m under an ID the table did not hold.                    *)
C19_Isolation ==
    [][ \A c \in procs :
          (pc[c] # "idle" \/ pc'[c] # "idle") =>
             LET m == IF pc[c] # "idle" THEN moduleID[c] ELSE moduleID'[c]
             IN  /\ modules' = modules
                 /\ \A k \in DOMAIN fields :
                      fields[k].ModuleID # m =>
                         k \in DOMAIN fields' /\ fields'[k] = fields[k]
                 /\ \A k \in DOMAIN fields' :
                      k \notin DOMAIN fields => fields'[k].ModuleID = m
                 /\ (pc'[c] = "done" /\ err'[c] = "nil") =>
                      \A k \in DOMAIN arg'[c] :
                         LET sid == arg'[c][k].ID
                         IN  (sid \in DOMAIN pre'[c] /\ pre'[c][sid].ModuleID # m) =>
                                /\ ff'[c][k].ID \notin DOMAIN pre'[c]
                                /\ fields'[ff'[c][k].ID].ModuleID = m
                                /\ fields'[sid] = pre'[c][sid]
      ]_vars

(* A successful call on one module submitted an active field of the other   *)
(* module, edited: that field is as it was and the element is a new row.    *)
C19_Witness ==
    \E c \in procs :
        /\ Succeeded(c)
        /\ \E k \in DOMAIN arg[c] :
             LET sid == arg[c][k].ID
             IN  /\ sid \in DOMAIN pre[c]
                 /\ pre[c][sid].ModuleID # moduleID[c]
                 /\ pre[c][sid].DeletedAt = NULL
                 /\ arg[c][k].Name # pre[c][sid].Name
                 /\ fields[sid] = pre[c][sid]
                 /\ ff[c][k].ID \in DOMAIN fields
                 /\ ff[c][k].ID # sid

-----------------------------------------------------------------------------
(* notification.AttachRemoteFiles (compose/service/notification.go): one    *)
(* goroutine per URL downloads the file and attaches it to the message.     *)
(* A URL is "ok" when client.Get builds a request for it and "bad" when     *)
(* client.Get returns an error.  get[k] is where the goroutine of rr[k] is: *)
(*   none -> Do -> Lock -> Attach -> Unlock -> Done -> finished             *)
(*           Do -> Done                   (download failed, or not 200)     *)

MaxURLs == 2     \* most URLs passed to AttachRemoteFiles

URLLists == SeqsUpTo({"ok", "bad"}, MaxURLs)

(* The variables AttachRemoteFiles neither reads nor writes *)
storeVars ==
    <<fields, nextID, now, procs, moduleIDs, calls, pc, moduleID, ff,
      hasRecords, existing, idx, err, arg, pre, again, turns, early,
      modules, lastCall, found>>

(* svc.AttachRemoteFiles(ctx, message, rr...) is called *)
CallAttach ==
    /\ at = "idle"
    /\ \E list \in URLLists :
         /\ rr' = list
         /\ get' = [k \in DOMAIN list |-> "none"]
    /\ at' = "New"
    /\ UNCHANGED <<url, result, wg, l, message>>
    /\ UNCHANGED storeVars

(* httpClient.New succeeded: on to the loop over rr *)
NewOK ==
    /\ at = "New"
    /\ at' = "Loop"
    /\ url' = 1
    /\ UNCHANGED <<rr, result, wg, l, get, message>>
    /\ UNCHANGED storeVars

(* httpClient.New failed: return errors.WithStack(err) *)
NewFails ==
    /\ at = "New"
    /\ at' = "returned"
    /\ result' = "error"
    /\ UNCHANGED <<rr, url, wg, l, get, message>>
    /\ UNCHANGED storeVars

(* client.Get(url) built the request: wg.Add(1); go get(log, req) *)
LoopGo ==
    /\ at = "Loop"
    /\ url <= Len(rr)
    /\ rr[url] = "ok"
    /\ wg' = wg + 1
    /\ get' = [get EXCEPT ![url] = "Do"]
    /\ url' = url + 1
    /\ UNCHANGED <<at, rr, result, l, message>>
    /\ UNCHANGED storeVars

(* client.Get(url) failed: return errors.WithStack(err) *)
LoopGetFails ==
    /\ at = "Loop"
    /\ url <= Len(rr)
    /\ rr[url] = "bad"
    /\ at' = "returned"
    /\ result' = "error"
    /\ UNCHANGED <<rr, url, wg, l, get, message>>
    /\ UNCHANGED storeVars

(* The loop is over *)
LoopEnd ==
    /\ at = "Loop"
    /\ url > Len(rr)
    /\ at' = "Wait"
    /\ UNCHANGED <<rr, url, result, wg, l, get, message>>
    /\ UNCHANGED storeVars

(* wg.Wait() returns when the counter is zero; return nil *)
Wait ==
    /\ at = "Wait"
    /\ wg = 0
    /\ at' = "returned"
    /\ result' = "nil"
    /\ UNCHANGED <<rr, url, wg, l, get, message>>
    /\ UNCHANGED storeVars

(* get: client.Do(req) answered with status 200 *)
DoOK(k) ==
    /\ get[k] = "Do"
    /\ get' = [get EXCEPT ![k] = "Lock"]
    /\ UNCHANGED <<at, rr, url, result, wg, l, message>>
    /\ UNCHANGED storeVars

(* get: client.Do(req) failed, or the status is not 200: log and return *)
DoFails(k) ==
    /\ get[k] = "Do"
    /\ get' = [get EXCEPT ![k] = "Done"]
    /\ UNCHANGED <<at, rr, url, result, wg, l, message>>
    /\ UNCHANGED storeVars

(* get: l.Lock() *)
Lock(k) ==
    /\ get[k] = "Lock"
    /\ l = 0
    /\ l' = k
    /\ get' = [get EXCEPT ![k] = "Attach"]
    /\ UNCHANGED <<at, rr, url, result, wg, message>>
    /\ UNCHANGED storeVars

(* get: message.AttachReader(...) *)
Attach(k) ==
    /\ get[k] = "Attach"
    /\ message' = Append(message, k)
    /\ get' = [get EXCEPT ![k] = "Unlock"]
    /\ UNCHANGED <<at, rr, url, result, wg, l>>
    /\ UNCHANGED storeVars

(* get: the deferred l.Unlock() *)
Unlock(k) ==
    /\ get[k] = "Unlock"
    /\ l' = 0
    /\ get' = [get EXCEPT ![k] = "Done"]
    /\ UNCHANGED <<at, rr, url, result, wg, message>>
    /\ UNCHANGED storeVars

(* get: the deferred wg.Done() *)
WgDone(k) ==
    /\ get[k] = "Done"
    /\ wg' = wg - 1
    /\ get' = [get EXCEPT ![k] = "finished"]
    /\ UNCHANGED <<at, rr, url, result, l, message>>
    /\ UNCHANGED storeVars

NextAttach ==
    \/ CallAttach
    \/ NewOK
    \/ NewFails
    \/ LoopGo
    \/ LoopGetFails
    \/ LoopEnd
    \/ Wait
    \/ \E k \in DOMAIN get : DoOK(k)
    \/ \E k \in DOMAIN get : DoFails(k)
    \/ \E k \in DOMAIN get : Lock(k)
    \/ \E k \in DOMAIN get : Attach(k)
    \/ \E k \in DOMAIN get : Unlock(k)
    \/ \E k \in DOMAIN get : WgDone(k)

SpecAttach == Init /\ [][NextAttach]_vars

-----------------------------------------------------------------------------
(* The goroutines that are running *)
Running == { k \in DOMAIN get : get[k] \notin {"none", "finished"} }

(* C20 as claimed.  Quiescence.  When AttachRemoteFiles has returned, with  *)
(* or without an error, no goroutine it started is still running, so that   *)
(* nothing is attached to the message after the return; and at any time at  *)
(* most one goroutine is between l.Lock() and l.Unlock(), where the         *)
(* attachment is added.                                                     *)
C20_Quiescent ==
    /\ at = "returned" => Running = {}
    /\ Cardinality({ k \in DOMAIN get : get[k] \in {"Attach", "Unlock"} }) <= 1
    /\ \A k \in DOMAIN get : get[k] \in {"Attach", "Unlock"} => l = k

=============================================================================
